---- MODULE Spec2Model ----
(***************************************************************************)
(* Model of the ESP32 solar charge controller firmware                     *)
(* (firmware/esp32-solar-charge/src/main.cpp and config.h).                *)
(*                                                                         *)
(* The firmware is one thread: setup() runs once, loop() runs forever.     *)
(* loop() is split at its blocking points (the reconnect while-loop, the   *)
(* 5 s delay, the transport service call, the two periodic ticks); pc is   *)
(* the position of that single thread.  Everything else that changes is    *)
(* the environment: the broker, the Wi-Fi link, the TCP session, the       *)
(* inbound control messages and the analog/digital input pins.             *)
(***************************************************************************)
EXTENDS Integers, Sequences, FiniteSets, TLC

(***************************** config.h ************************************)
MQTT_TOPIC_STATUS == "station/001/status"
MQTT_TOPIC_CONTROL == "station/001/control"
MQTT_TOPIC_SENSOR_DATA == "station/001/sensor"
RELAY_1_PIN == 26
RELAY_2_PIN == 27
SENSOR_READ_INTERVAL == 5000
\* main.cpp:76, the literal publish period
MQTT_PUBLISH_INTERVAL == 10000
\* main.cpp:125, delay(5000) after a failed connect
RECONNECT_DELAY == 5000
\* main.cpp:89-90, setupWiFi polls at most 20 times, 500 ms apart
WIFI_MAX_ATTEMPTS == 20
WIFI_POLL_DELAY == 500
\* main.cpp:180-182 and config.h:31-33: raw * 3.3 / 4095.0 * 11.0 and
\* raw * 3.3 / 4095.0 / 0.185, kept as exact fractions of integers
ADC_FULL_SCALE == 4095
VREF_TENTHS == 33
VOLTAGE_RATIO_TENTHS == 110
CURRENT_RATIO_THOUSANDTHS == 185

(****************************** bounds *************************************)
\* the uptime counter is modelled UptimeBits wide (millis() wraps at 2^32)
UptimeBits == 16
\* SpecClock follows the clock: it advances in steps of Step ms, MaxSteps
\* times at most
MaxSteps == 6
\* SpecCmd follows the commands: the broker sends MaxCmds messages at most
MaxCmds == 3
\* Spec has both: one message from the broker and MaxMixSteps clock steps
\* at most
MaxMixSteps == 1
\* messages waiting in the client's receive buffer
MaxInbox == 2
\* SpecWrap follows the clock across the wrap of the uptime counter and
\* MaxPastWrap steps beyond it
MaxPastWrap == 2

Wrap == 2 ^ UptimeBits
Step == RECONNECT_DELAY \div 2
\* a time no behaviour reaches
Never == Wrap - 1
\* clock steps that take the uptime counter from 0 past its wrap
WrapSteps == (Wrap \div Step) + MaxPastWrap

RelayPins == {RELAY_1_PIN, RELAY_2_PIN}
Levels == {"LOW", "HIGH"}
Recognized == {"relay1_on", "relay1_off", "relay2_on", "relay2_off"}
Payloads == Recognized \cup {"reboot"}
\* what the broker can deliver: every payload on the control topic, and one
\* message on a topic the firmware did not ask for
Messages ==
  {[topic |-> MQTT_TOPIC_CONTROL, payload |-> p] : p \in Payloads}
    \cup {[topic |-> MQTT_TOPIC_STATUS, payload |-> "relay1_on"]}
\* raw pin readings: the three ADC channels and the charge-status line
AdcScenes ==
  { [solarVoltageRaw |-> 2048, solarCurrentRaw |-> 1024,
     batteryVoltageRaw |-> 1800, chargeStatus |-> 1],
    [solarVoltageRaw |-> 4095, solarCurrentRaw |-> 0,
     batteryVoltageRaw |-> 1200, chargeStatus |-> 0] }
\* polls after which Wi-Fi associates during setupWiFi; above
\* WIFI_MAX_ATTEMPTS it does not associate in time
AssocPolls == {0, WIFI_MAX_ATTEMPTS, WIFI_MAX_ATTEMPTS + 1}
\* when the broker refuses connections: from .from until .until (ms of
\* uptime); never, over the first 12 s, for ever
NoOutage == [from |-> 0, until |-> 0]
Outages ==
  { NoOutage, [from |-> 0, until |-> 12 * 1000],
    [from |-> 0, until |-> Never] }
\* how long http.POST blocks, and what it returns (a status code, or a
\* negative HTTPClient error)
HttpDurations == {0, Step}
HttpCodes == {200, 404, -1}

VARIABLES
  pc,              \* position of the single thread
  now,             \* millis()
  lastSensorRead,  \* main.cpp:24
  lastMqttPublish, \* main.cpp:25
  relay1State,     \* main.cpp:22
  relay2State,     \* main.cpp:23
  pins,            \* last level written to each relay pin
  callback,        \* PubSubClient's callback slot
  wifi,            \* WiFi.status() == WL_CONNECTED
  mqttConnected,   \* mqttClient.connected()
  subscribed,      \* the broker holds a control-topic subscription
  outage,          \* when the broker refuses connections
  assocAfter,      \* polls until Wi-Fi associates, while setupWiFi waits
  inbox,           \* inbound messages buffered by the client
  adc,             \* what the input pins read now
  delayLeft,       \* rest of the delay(5000) in reconnectMQTT
  attempts,        \* connect calls made by this reconnectMQTT call
  fails,           \* of which rejected
  lastReading,     \* locals of the last readSensors call
  http,            \* the last http.POST: code and how it was classified
  lastTrace,       \* effects of the last mqttCallback call, in order
  cmdLog,          \* every message handed to handleRelayControl
  statusLog,       \* every publish call on the status topic
  sensorLog,       \* every publish call on the sensor topic
  cmdsLeft,        \* messages the broker may still send
  stepsLeft        \* clock steps the behaviour may still take

dev == <<relay1State, relay2State, pins>>
clock == <<now, lastSensorRead, lastMqttPublish>>
link == <<wifi, mqttConnected, subscribed>>
retry == <<delayLeft, attempts, fails>>
logs == <<lastTrace, cmdLog, statusLog>>
budget == <<cmdsLeft, stepsLeft>>
plan == <<outage, assocAfter>>
vars == <<pc, dev, clock, link, plan, retry, logs, callback, inbox, adc,
          lastReading, http, sensorLog, budget>>

(************************** pure helpers ***********************************)
\* the difference of two uptime stamps taken as signed numbers
ElapsedSigned(t, last) == t - last
\* unsigned subtraction of two uptime stamps (main.cpp:70, 76)
Elapsed(t, last) == (t - last) % Wrap
\* millis() after d more milliseconds
Later(t, d) == (t + d) % Wrap

\* round(n / d) for n >= 0, d > 0
RoundDiv(n, d) == (2 * n + d) \div (2 * d)
\* Voltage with a full scale of 4096 counts
VoltagePowerOfTwo(raw) ==
  RoundDiv(raw * VREF_TENTHS * VOLTAGE_RATIO_TENTHS * 10,
           ADC_FULL_SCALE + 1)
\* (raw * 3.3 / 4095.0) * RATIO in thousandths of a volt (main.cpp:207, 209)
Voltage(raw) ==
  RoundDiv(raw * VREF_TENTHS * VOLTAGE_RATIO_TENTHS * 10,
           ADC_FULL_SCALE)
\* (raw * 3.3 / 4095.0) / RATIO in thousandths of an ampere (main.cpp:208)
\* (the fraction is reduced by 75 to stay inside 32-bit integers)
Current(raw) ==
  RoundDiv(raw * ((VREF_TENTHS * 100000) \div 75),
           (ADC_FULL_SCALE * CURRENT_RATIO_THOUSANDTHS) \div 75)
\* the four converted values of readSensors / publishSensorData
Convert(raw) ==
  [solarVoltage |-> Voltage(raw.solarVoltageRaw),
   solarCurrent |-> Current(raw.solarCurrentRaw),
   batteryVoltage |-> Voltage(raw.batteryVoltageRaw),
   chargeStatus |-> raw.chargeStatus]

(*********************** relay actuator and commands ***********************)
\* The handler works on a record of what it can touch: the two cached
\* flags, the relay pins, the ordered trace of its effects and the publish
\* calls it made.
Device ==
  [relay1State |-> relay1State, relay2State |-> relay2State, pins |-> pins,
   trace |-> << >>, out |-> << >>]

digitalWrite(st, pin, level) ==
  [st EXCEPT !.pins[pin] = level, !.trace = Append(@, "digitalWrite")]
SetRelay1State(st, v) ==
  [st EXCEPT !.relay1State = v, !.trace = Append(@, "assign")]
SetRelay2State(st, v) ==
  [st EXCEPT !.relay2State = v, !.trace = Append(@, "assign")]

\* publishStatus(): nothing when the client is not connected, otherwise one
\* publish call carrying the cached flags and millis(); ok is what
\* mqttClient.publish returned
publishStatus(st, conn, t, ok) ==
  IF ~conn THEN st
  ELSE [st EXCEPT
          !.trace = Append(@, "publish"),
          !.out = Append(@, [topic |-> MQTT_TOPIC_STATUS,
                             relay1 |-> st.relay1State,
                             relay2 |-> st.relay2State,
                             timestamp |-> t, ok |-> ok])]

\* ApplyCommand with a relay2_off branch that drives the pin and forgets the
\* cached flag
ApplyCommandPinOnly(st, message) ==
  IF message = "relay1_on"
    THEN SetRelay1State(digitalWrite(st, RELAY_1_PIN, "HIGH"), TRUE)
  ELSE IF message = "relay1_off"
    THEN SetRelay1State(digitalWrite(st, RELAY_1_PIN, "LOW"), FALSE)
  ELSE IF message = "relay2_on"
    THEN SetRelay2State(digitalWrite(st, RELAY_2_PIN, "HIGH"), TRUE)
  ELSE IF message = "relay2_off"
    THEN digitalWrite(st, RELAY_2_PIN, "LOW")
  ELSE st

\* ApplyCommand with a relay2_on branch that toggles relay 2
ApplyCommandToggle(st, message) ==
  IF message = "relay1_on"
    THEN SetRelay1State(digitalWrite(st, RELAY_1_PIN, "HIGH"), TRUE)
  ELSE IF message = "relay1_off"
    THEN SetRelay1State(digitalWrite(st, RELAY_1_PIN, "LOW"), FALSE)
  ELSE IF message = "relay2_on"
    THEN SetRelay2State(
           digitalWrite(st, RELAY_2_PIN,
                        IF st.relay2State THEN "LOW" ELSE "HIGH"),
           ~st.relay2State)
  ELSE IF message = "relay2_off"
    THEN SetRelay2State(digitalWrite(st, RELAY_2_PIN, "LOW"), FALSE)
  ELSE st

\* ApplyCommand with a relay1_off branch that switches both relays off
ApplyCommandBothOff(st, message) ==
  IF message = "relay1_on"
    THEN SetRelay1State(digitalWrite(st, RELAY_1_PIN, "HIGH"), TRUE)
  ELSE IF message = "relay1_off"
    THEN SetRelay2State(
           digitalWrite(
             SetRelay1State(digitalWrite(st, RELAY_1_PIN, "LOW"), FALSE),
             RELAY_2_PIN, "LOW"),
           FALSE)
  ELSE IF message = "relay2_on"
    THEN SetRelay2State(digitalWrite(st, RELAY_2_PIN, "HIGH"), TRUE)
  ELSE IF message = "relay2_off"
    THEN SetRelay2State(digitalWrite(st, RELAY_2_PIN, "LOW"), FALSE)
  ELSE st

\* the if / else-if chain of handleRelayControl (main.cpp:150-166)
ApplyCommand(st, message) ==
  IF message = "relay1_on"
    THEN SetRelay1State(digitalWrite(st, RELAY_1_PIN, "HIGH"), TRUE)
  ELSE IF message = "relay1_off"
    THEN SetRelay1State(digitalWrite(st, RELAY_1_PIN, "LOW"), FALSE)
  ELSE IF message = "relay2_on"
    THEN SetRelay2State(digitalWrite(st, RELAY_2_PIN, "HIGH"), TRUE)
  ELSE IF message = "relay2_off"
    THEN SetRelay2State(digitalWrite(st, RELAY_2_PIN, "LOW"), FALSE)
  ELSE st

\* handleRelayControl publishing the status before it switches the relay
handleRelayControlPublishFirst(st, message, conn, t, ok) ==
  ApplyCommand(publishStatus(st, conn, t, ok), message)

\* handleRelayControl publishing the status only when a relay changed
handleRelayControlOnChange(st, message, conn, t, ok) ==
  LET after == ApplyCommand(st, message)
  IN IF after.relay1State = st.relay1State
          /\ after.relay2State = st.relay2State
       THEN after
       ELSE publishStatus(after, conn, t, ok)

\* handleRelayControl undoing the relay change when the status was not
\* delivered
handleRelayControlRollback(st, message, conn, t, ok) ==
  LET after == publishStatus(ApplyCommand(st, message), conn, t, ok)
  IN IF conn /\ ok
       THEN after
       ELSE [after EXCEPT !.relay1State = st.relay1State,
                          !.relay2State = st.relay2State,
                          !.pins = st.pins]

\* handleRelayControl: the chain, then publishStatus() whatever the message
handleRelayControl(st, message, conn, t, ok) ==
  publishStatus(ApplyCommand(st, message), conn, t, ok)

\* mqttCallback handing messages of every topic to the handler
mqttCallbackAnyTopic(st, topic, payload, conn, t, ok) ==
  handleRelayControl(st, payload, conn, t, ok)

\* mqttCallback: the payload bytes are copied one by one into a String (the
\* same characters), and only the control topic reaches the handler
mqttCallback(st, topic, payload, conn, t, ok) ==
  IF topic = MQTT_TOPIC_CONTROL
    THEN handleRelayControl(st, payload, conn, t, ok)
    ELSE st

(***************************** telemetry ***********************************)
\* readSensors (main.cpp:174-182): the raw reads and their conversion
readSensors(raw) == Convert(raw)

\* publishSensorData sending what the last sample tick had read
publishSensorDataStale(raw, conn, r1, r2, t, ok) ==
  IF ~conn THEN << >>
  ELSE << [topic |-> MQTT_TOPIC_SENSOR_DATA,
           reading |-> lastReading,
           relay1State |-> r1, relay2State |-> r2,
           timestamp |-> t, ok |-> ok] >>

\* publishSensorData (main.cpp:198-230): the publish calls it makes, given
\* what the pins read at the call
publishSensorData(raw, conn, r1, r2, t, ok) ==
  IF ~conn THEN << >>
  ELSE << [topic |-> MQTT_TOPIC_SENSOR_DATA,
           reading |-> Convert(raw),
           relay1State |-> r1, relay2State |-> r2,
           timestamp |-> t, ok |-> ok] >>

\* sendDataToAPI posting whether or not Wi-Fi is associated
sendDataToAPINoGuard(reading, up, code) ==
  [sent |-> TRUE, code |-> code, success |-> code > 0]

\* sendDataToAPI (main.cpp:250-275): no request without Wi-Fi; otherwise one
\* POST, reported as sent successfully when the returned code is positive
sendDataToAPI(reading, up, code) ==
  IF ~up THEN [sent |-> FALSE, code |-> 0, success |-> FALSE]
  ELSE [sent |-> TRUE, code |-> code, success |-> code > 0]

\* setupWiFi polling until the link associates, however long that takes
setupWiFiUnbounded(after) == after

\* setupWiFi (main.cpp:88-93): the number of 500 ms polls made when the
\* link associates after that many polls
setupWiFi(after) ==
  IF after < WIFI_MAX_ATTEMPTS THEN after ELSE WIFI_MAX_ATTEMPTS

(******************************* state *************************************)
NoReading ==
  [solarVoltage |-> -1, solarCurrent |-> -1, batteryVoltage |-> -1,
   chargeStatus |-> -1]
NoPost == [sent |-> FALSE, code |-> 0, success |-> FALSE]

\* The globals as constructed (main.cpp:9-25).  The relay pins float until
\* setup() drives them; the broker and the input pins are as found.
Boot ==
  /\ pc = "boot"
  /\ now = 0
  /\ lastSensorRead = 0
  /\ lastMqttPublish = 0
  /\ relay1State = FALSE
  /\ relay2State = FALSE
  /\ pins \in [RelayPins -> Levels]
  /\ callback = "none"
  /\ wifi = FALSE
  /\ mqttConnected = FALSE
  /\ subscribed = FALSE
  /\ inbox = << >>
  /\ delayLeft = 0
  /\ attempts = 0
  /\ fails = 0
  /\ lastReading = NoReading
  /\ http = NoPost
  /\ lastTrace = << >>
  /\ cmdLog = << >>
  /\ statusLog = << >>
  /\ sensorLog = << >>

\* Spec: any Wi-Fi association, any pin readings, a reachable broker; one
\* message from the broker and a few clock steps
Init ==
  /\ Boot
  /\ outage = NoOutage
  /\ assocAfter \in AssocPolls
  /\ adc \in AdcScenes
  /\ cmdsLeft = 1
  /\ stepsLeft = MaxMixSteps
\* SpecClock: any outage, any Wi-Fi association, any pin readings; no
\* commands
InitClock ==
  /\ Boot
  /\ outage \in Outages
  /\ assocAfter \in AssocPolls
  /\ adc \in AdcScenes
  /\ cmdsLeft = 0
  /\ stepsLeft = MaxSteps
\* SpecCmd: the broker is reachable, Wi-Fi associates at once, the pins
\* keep their reading, the clock stands still; the broker sends commands
InitCmd ==
  /\ Boot
  /\ outage = NoOutage
  /\ assocAfter = 0
  /\ adc = CHOOSE a \in AdcScenes : a.chargeStatus = 1
  /\ cmdsLeft = MaxCmds
  /\ stepsLeft = 0

\* SpecWrap: the broker is reachable, Wi-Fi associates at once, the pins
\* keep their reading, no commands; the clock runs until the uptime
\* counter has wrapped
InitWrap ==
  /\ Boot
  /\ outage = NoOutage
  /\ assocAfter = 0
  /\ adc = CHOOSE a \in AdcScenes : a.chargeStatus = 1
  /\ cmdsLeft = 0
  /\ stepsLeft = WrapSteps

\* the broker accepts a connection made at time t
BrokerUp(t) == ~(outage.from <= t /\ t < outage.until)

SampleDue == Elapsed(now, lastSensorRead) >= SENSOR_READ_INTERVAL
PublishDue == Elapsed(now, lastMqttPublish) >= MQTT_PUBLISH_INTERVAL

(************************** the firmware thread ****************************)
\* setup() (main.cpp:37-60): both relay pins LOW, setupWiFi, setupMQTT
setup ==
  /\ pc = "boot"
  /\ pins' = [pins EXCEPT ![RELAY_1_PIN] = "LOW", ![RELAY_2_PIN] = "LOW"]
  /\ now' = Later(now, WIFI_POLL_DELAY * setupWiFi(assocAfter))
  /\ wifi' = (assocAfter <= WIFI_MAX_ATTEMPTS)
  /\ assocAfter' = 0
  /\ callback' = "mqttCallback"
  /\ pc' = "loop"
  /\ UNCHANGED <<relay1State, relay2State, lastSensorRead, lastMqttPublish,
                 mqttConnected, subscribed, outage, retry, logs, inbox,
                 adc, lastReading, http, sensorLog, budget>>

\* loop(), main.cpp:64-66: the connected() test that opens each iteration
loopEnter ==
  /\ pc = "loop"
  /\ IF mqttConnected
       THEN pc' = "service"
       ELSE pc' = "reconnect"
  /\ attempts' = 0
  /\ fails' = 0
  /\ UNCHANGED <<dev, clock, link, plan, delayLeft, logs, callback,
                 inbox, adc, lastReading, http, sensorLog, budget>>

\* reconnectMQTT giving up after the third rejected connect call
reconnectMQTTGivesUp ==
  /\ pc = "reconnect"
  /\ ~mqttConnected
  /\ attempts' = attempts + 1
  /\ IF BrokerUp(now) /\ wifi
       THEN /\ mqttConnected' = TRUE
            /\ \E subOk \in BOOLEAN : subscribed' = subOk
            /\ pc' = "service"
            /\ UNCHANGED <<fails, delayLeft>>
       ELSE /\ fails' = fails + 1
            /\ IF fails' >= 3
                 THEN pc' = "service" /\ UNCHANGED delayLeft
                 ELSE pc' = "backoff" /\ delayLeft' = RECONNECT_DELAY
            /\ UNCHANGED <<mqttConnected, subscribed>>
  /\ UNCHANGED <<dev, clock, wifi, plan, logs, callback, inbox, adc,
                 lastReading, http, sensorLog, budget>>

\* one pass of the while loop of reconnectMQTT (main.cpp:111-127): a connect
\* call; on success the subscribe call (its result is not looked at) and
\* the loop ends; on failure the 5 s delay starts
reconnectMQTT ==
  /\ pc = "reconnect"
  /\ ~mqttConnected
  /\ attempts' = attempts + 1
  /\ IF BrokerUp(now) /\ wifi
       THEN /\ mqttConnected' = TRUE
            /\ \E subOk \in BOOLEAN : subscribed' = subOk
            /\ pc' = "service"
            /\ UNCHANGED <<fails, delayLeft>>
       ELSE /\ fails' = fails + 1
            /\ delayLeft' = RECONNECT_DELAY
            /\ pc' = "backoff"
            /\ UNCHANGED <<mqttConnected, subscribed>>
  /\ UNCHANGED <<dev, clock, wifi, plan, logs, callback, inbox, adc,
                 lastReading, http, sensorLog, budget>>

\* delay(5000) of main.cpp:125, one clock step at a time; when it is over
\* the while condition is tested again
backoff ==
  /\ pc = "backoff"
  /\ stepsLeft > 0
  /\ stepsLeft' = stepsLeft - 1
  /\ now' = Later(now, Step)
  /\ delayLeft' = delayLeft - Step
  /\ pc' = IF delayLeft' = 0 THEN "reconnect" ELSE "backoff"
  /\ UNCHANGED <<dev, lastSensorRead, lastMqttPublish, link, plan, attempts,
                 fails, logs, callback, inbox, adc, lastReading, http,
                 sensorLog, cmdsLeft>>

\* mqttClient.loop() (main.cpp:67): when connected it hands at most one
\* buffered message to the callback.  The session can be found closed once
\* the packet is read (lost): connected() is then false inside the callback.
service ==
  /\ pc = "service"
  /\ pc' = "sample"
  /\ IF mqttConnected /\ inbox # << >> /\ callback = "mqttCallback"
       THEN \E lost \in BOOLEAN, ok \in BOOLEAN :
              LET m == Head(inbox)
                  st == mqttCallback(Device, m.topic, m.payload, ~lost, now, ok)
              IN /\ relay1State' = st.relay1State
                 /\ relay2State' = st.relay2State
                 /\ pins' = st.pins
                 /\ lastTrace' = st.trace
                 /\ statusLog' = statusLog \o st.out
                 /\ cmdLog' =
                      IF m.topic = MQTT_TOPIC_CONTROL
                        THEN Append(cmdLog,
                               [payload |-> m.payload,
                                conn |-> ~lost,
                                relay1 |-> st.relay1State,
                                relay2 |-> st.relay2State,
                                pins |-> st.pins,
                                published |-> Len(st.out)])
                        ELSE cmdLog
                 /\ mqttConnected' = ~lost
                 /\ subscribed' = (subscribed /\ ~lost)
                 /\ inbox' = IF lost THEN << >> ELSE Tail(inbox)
       ELSE UNCHANGED <<dev, logs, mqttConnected, subscribed, inbox>>
  /\ UNCHANGED <<clock, wifi, plan, retry, callback, adc,
                 lastReading, http, sensorLog, budget>>

\* the sample tick (main.cpp:70-73): readSensors, which ends in
\* sendDataToAPI; the POST blocks for h ms; then lastSensorRead = millis()
sampleTick ==
  /\ pc = "sample"
  /\ pc' = "publish"
  /\ IF SampleDue
       THEN \E h \in HttpDurations, code \in HttpCodes :
              /\ h = 0 \/ (wifi /\ h <= stepsLeft * Step)
              /\ stepsLeft' = stepsLeft - (h \div Step)
              /\ lastReading' = readSensors(adc)
              /\ http' = sendDataToAPI(lastReading', wifi, code)
              /\ now' = Later(now, h)
              /\ lastSensorRead' = now'
       ELSE UNCHANGED <<lastReading, http, now, lastSensorRead, stepsLeft>>
  /\ UNCHANGED <<dev, lastMqttPublish, link, plan, retry, logs,
                 callback, inbox, adc, sensorLog, cmdsLeft>>

\* the publish tick keeping its stamp when nothing was delivered, so that
\* the next iteration tries again
publishTickRetry ==
  /\ pc = "publish"
  /\ pc' = "loop"
  /\ IF PublishDue
       THEN \E ok \in BOOLEAN :
              /\ sensorLog' = sensorLog \o
                   publishSensorData(adc, mqttConnected, relay1State,
                                     relay2State, now, ok)
              /\ lastMqttPublish' =
                   IF mqttConnected /\ ok THEN now ELSE lastMqttPublish
       ELSE UNCHANGED <<sensorLog, lastMqttPublish>>
  /\ UNCHANGED <<dev, now, lastSensorRead, link, plan, retry, logs,
                 callback, inbox, adc, lastReading, http, budget>>

\* the publish tick (main.cpp:76-79): publishSensorData, then
\* lastMqttPublish = millis()
publishTick ==
  /\ pc = "publish"
  /\ pc' = "loop"
  /\ IF PublishDue
       THEN /\ \E ok \in BOOLEAN :
                 sensorLog' = sensorLog \o
                   publishSensorData(adc, mqttConnected, relay1State,
                                     relay2State, now, ok)
            /\ lastMqttPublish' = now
       ELSE UNCHANGED <<sensorLog, lastMqttPublish>>
  /\ UNCHANGED <<dev, now, lastSensorRead, link, plan, retry, logs,
                 callback, inbox, adc, lastReading, http, budget>>

\* time passing between two iterations of loop() that had nothing to do: the
\* loop polls far more often than once per clock step, so the clock only
\* moves on here when neither tick is due and the client is connected
idle ==
  /\ pc = "loop"
  /\ mqttConnected
  /\ ~SampleDue /\ ~PublishDue
  /\ stepsLeft > 0
  /\ stepsLeft' = stepsLeft - 1
  /\ now' = Later(now, Step)
  /\ UNCHANGED <<pc, dev, lastSensorRead, lastMqttPublish, link, plan,
                 retry, logs, callback, inbox, adc, lastReading, http,
                 sensorLog, cmdsLeft>>

(***************************** environment *********************************)
\* the broker delivers a message to the subscribed client
brokerSend ==
  /\ pc # "boot"
  /\ mqttConnected /\ subscribed
  /\ cmdsLeft > 0
  /\ Len(inbox) < MaxInbox
  /\ \E m \in Messages : inbox' = Append(inbox, m)
  /\ cmdsLeft' = cmdsLeft - 1
  /\ UNCHANGED <<pc, dev, clock, link, plan, retry, logs, callback,
                 adc, lastReading, http, sensorLog, stepsLeft>>

\* the TCP session to the broker is lost; what was buffered goes with it
linkLoss ==
  /\ pc # "boot"
  /\ mqttConnected
  /\ mqttConnected' = FALSE
  /\ subscribed' = FALSE
  /\ inbox' = << >>
  /\ UNCHANGED <<pc, dev, clock, wifi, plan, retry, logs, callback,
                 adc, lastReading, http, sensorLog, budget>>

\* Wi-Fi associates or drops
wifiFlip ==
  /\ pc # "boot"
  /\ wifi' = ~wifi
  /\ UNCHANGED <<pc, dev, clock, mqttConnected, subscribed, plan, retry,
                 logs, callback, inbox, adc, lastReading, http,
                 sensorLog, budget>>

\* the input pins read something else
pinChange ==
  /\ pc # "boot"
  /\ \E a \in AdcScenes \ {adc} : adc' = a
  /\ UNCHANGED <<pc, dev, clock, link, plan, retry, logs, callback,
                 inbox, lastReading, http, sensorLog, budget>>

\* the firmware and its whole environment
Next ==
  \/ setup
  \/ loopEnter
  \/ reconnectMQTT
  \/ backoff
  \/ service
  \/ sampleTick
  \/ publishTick
  \/ idle
  \/ brokerSend
  \/ linkLoss
  \/ wifiFlip
  \/ pinChange

\* the firmware with the environment of its telemetry path
NextClock ==
  \/ setup
  \/ loopEnter
  \/ reconnectMQTT
  \/ backoff
  \/ service
  \/ sampleTick
  \/ publishTick
  \/ idle
  \/ linkLoss
  \/ wifiFlip
  \/ pinChange

\* the firmware with the environment of its control path
NextCmd ==
  \/ setup
  \/ loopEnter
  \/ reconnectMQTT
  \/ service
  \/ sampleTick
  \/ publishTick
  \/ brokerSend
  \/ linkLoss

\* the firmware left alone with its clock
NextWrap ==
  \/ setup
  \/ loopEnter
  \/ reconnectMQTT
  \/ service
  \/ sampleTick
  \/ publishTick
  \/ idle

Spec == Init /\ [][Next]_vars
SpecClock == InitClock /\ [][NextClock]_vars
SpecCmd == InitCmd /\ [][NextCmd]_vars
SpecWrap == InitWrap /\ [][NextWrap]_vars
\* the Arduino runtime calls setup() once at power-up and nothing can keep
\* it from running
SpecBoot == Init /\ [][Next]_vars /\ WF_vars(setup)

(***************************************************************************)
(* Claims                                                                  *)
(***************************************************************************)
Last(q) == q[Len(q)]
\* the relay state before the i-th handled message
Before(i) ==
  IF i = 1
    THEN [relay1 |-> FALSE, relay2 |-> FALSE,
          pins |-> [p \in RelayPins |-> "LOW"]]
    ELSE [relay1 |-> cmdLog[i - 1].relay1, relay2 |-> cmdLog[i - 1].relay2,
          pins |-> cmdLog[i - 1].pins]
AllRecognized == \A i \in 1..Len(cmdLog) : cmdLog[i].payload \in Recognized

\* C1: a control-topic payload outside the four commands changes neither
\* cached flag nor relay pin and makes no publish call on the status topic.
C1_UnknownCommandDropped ==
  \A i \in 1..Len(cmdLog) :
    cmdLog[i].payload \notin Recognized =>
      /\ cmdLog[i].published = 0
      /\ cmdLog[i].relay1 = Before(i).relay1
      /\ cmdLog[i].relay2 = Before(i).relay2
      /\ cmdLog[i].pins = Before(i).pins

\* C2: when the last callback published a status, the publish call is the
\* last effect of that callback (after the pin write and the assignment to
\* the cached flag) and its relay1/relay2 fields are the cached flags as the
\* command left them.
C2_StatusAfterWrite ==
  \A i \in 1..Len(lastTrace) :
    lastTrace[i] = "publish" =>
      /\ i = Len(lastTrace)
      /\ statusLog # << >>
      /\ Last(statusLog).relay1 = relay1State
      /\ Last(statusLog).relay2 = relay2State
      /\ Last(statusLog).relay1 = Last(cmdLog).relay1
      /\ Last(statusLog).relay2 = Last(cmdLog).relay2
\* a command that changed relay 1 was written, cached and then published
C2_Witness ==
  /\ lastTrace = <<"digitalWrite", "assign", "publish">>
  /\ Last(cmdLog).payload = "relay1_on"
  /\ Before(Len(cmdLog)).relay1 = FALSE
  /\ Last(statusLog).relay1 = TRUE

\* C3: once setup() has run, and after every command, each cached flag is
\* true exactly when the last level written to its pin is HIGH.
C3_RelayConsistency ==
  pc # "boot" =>
    /\ relay1State <=> (pins[RELAY_1_PIN] = "HIGH")
    /\ relay2State <=> (pins[RELAY_2_PIN] = "HIGH")
\* three commands handled, relay 2 switched on and relay 1 on and off again
C3_Witness ==
  /\ Len(cmdLog) = 3
  /\ AllRecognized
  /\ ~relay1State /\ relay2State
  /\ cmdLog[1].relay1

\* C4: with the client disconnected and the broker unreachable, a sample
\* tick that is due fires before the loop driver waits out another rejected
\* connect attempt: the driver is never in the delay that follows a second
\* (or later) rejected attempt with the sample tick still due.
C4_SampleTickNotHeld ==
  ~(/\ pc = "backoff"
    /\ fails >= 2
    /\ ~mqttConnected
    /\ ~BrokerUp(now)
    /\ SampleDue)

\* C5: reconnectMQTT is left only with the client connected, by the connect
\* call that follows the last rejected one (attempt N + 1 after N
\* rejections); a rejected call is always followed by the delay and another
\* call; a call made while the broker accepts succeeds; no call is made
\* while connected.
C5_ReconnectConvergence ==
  [][/\ (pc = "reconnect" /\ pc' = "service") =>
          (mqttConnected' /\ fails' = fails /\ attempts' = fails + 1)
     /\ (pc \in {"reconnect", "backoff"}) =>
          (pc' \in {"reconnect", "backoff", "service"})
     /\ (pc = "reconnect" /\ pc' = "backoff") =>
          (/\ ~(BrokerUp(now) /\ wifi)
           /\ fails' = fails + 1
           /\ attempts' = attempts + 1
           /\ ~mqttConnected')
     /\ (pc = "reconnect" /\ pc' # pc /\ BrokerUp(now) /\ wifi) =>
          (pc' = "service" /\ mqttConnected')
     /\ (attempts' > attempts) => (~mqttConnected /\ pc = "reconnect")
    ]_vars
\* three rejected connect calls, then the fourth connects
C5_Witness ==
  /\ pc = "service"
  /\ mqttConnected
  /\ fails = 3
  /\ attempts = 4

\* whether relay `on`/`off` names is on after the first i handled commands:
\* the last of them that names it says so
RelayAfter(i, on, off) ==
  LET hits == {j \in 1..i : cmdLog[j].payload \in {on, off}}
  IN IF hits = {} THEN FALSE
     ELSE cmdLog[CHOOSE j \in hits : \A k \in hits : k <= j].payload = on
InOrder ==
  \A i \in 1..Len(cmdLog) :
    /\ cmdLog[i].relay1 = RelayAfter(i, "relay1_on", "relay1_off")
    /\ cmdLog[i].relay2 = RelayAfter(i, "relay2_on", "relay2_off")

\* C6 as stated: for a sequence of recognized commands, the commands take
\* effect in the order handled, and the k-th status publish belongs to the
\* k-th command and carries the relay state after it, one publish per
\* command.
C6_OnePublishPerCommand ==
  AllRecognized =>
    /\ InOrder
    /\ Len(statusLog) = Len(cmdLog)
    /\ \A k \in 1..Len(cmdLog) :
         /\ statusLog[k].relay1 = cmdLog[k].relay1
         /\ statusLog[k].relay2 = cmdLog[k].relay2

\* C6 as amended: for a sequence of recognized commands, the commands take
\* effect in the order the client buffered them, one at a time; a command
\* handled while the client is connected makes exactly one status publish
\* call and a command handled after the session was lost makes none; the
\* k-th publish call belongs to the k-th command handled while connected
\* and carries the relay state after it.
C6_Connected == SelectSeq(cmdLog, LAMBDA e : e.conn)
C6_PublishPerConnectedCommand ==
  /\ [](AllRecognized =>
          /\ InOrder
          /\ \A i \in 1..Len(cmdLog) :
               cmdLog[i].published = (IF cmdLog[i].conn THEN 1 ELSE 0)
          /\ Len(statusLog) = Len(C6_Connected)
          /\ \A k \in 1..Len(C6_Connected) :
               /\ statusLog[k].relay1 = C6_Connected[k].relay1
               /\ statusLog[k].relay2 = C6_Connected[k].relay2
          /\ cmdLog # << >> =>
               /\ relay1State = Last(cmdLog).relay1
               /\ relay2State = Last(cmdLog).relay2)
  /\ [][cmdLog' # cmdLog =>
          /\ inbox # << >>
          /\ cmdLog' = Append(cmdLog, Last(cmdLog'))
          /\ Last(cmdLog').payload = Head(inbox).payload
          /\ inbox' \in {Tail(inbox), << >>}]_vars
\* the sequence relay1_on, relay2_on, relay1_off with its three publishes
C6_Witness ==
  /\ Len(cmdLog) = 3
  /\ cmdLog[1].payload = "relay1_on"
  /\ cmdLog[2].payload = "relay2_on"
  /\ cmdLog[3].payload = "relay1_off"
  /\ Len(statusLog) = 3
  /\ statusLog[1].relay1 /\ ~statusLog[1].relay2
  /\ statusLog[2].relay1 /\ statusLog[2].relay2
  /\ ~statusLog[3].relay1 /\ statusLog[3].relay2
  /\ ~relay1State /\ relay2State

\* the i-th handled command repeats the one handled just before it
Repeats(i) ==
  /\ i >= 2
  /\ cmdLog[i].payload \in Recognized
  /\ cmdLog[i].payload = cmdLog[i - 1].payload
SameRelays(i) ==
  /\ cmdLog[i].relay1 = cmdLog[i - 1].relay1
  /\ cmdLog[i].relay2 = cmdLog[i - 1].relay2
  /\ cmdLog[i].pins = cmdLog[i - 1].pins

\* C7 as stated: a recognized command applied twice in a row leaves the
\* flags and pins as the first application left them, and each of the two
\* applications makes a status publish.
C7_IdempotentTwoPublishes ==
  \A i \in 1..Len(cmdLog) :
    Repeats(i) =>
      /\ SameRelays(i)
      /\ cmdLog[i - 1].published = 1
      /\ cmdLog[i].published = 1

\* C7 as amended: a recognized command applied twice in a row leaves the
\* flags and pins as the first application left them; each application made
\* while the client is connected makes one status publish call (two when
\* both are), an application that finds the session lost makes none.
C7_IdempotentPublishIfConnected ==
  \A i \in 1..Len(cmdLog) :
    Repeats(i) =>
      /\ SameRelays(i)
      /\ \A j \in {i - 1, i} :
           cmdLog[j].published = (IF cmdLog[j].conn THEN 1 ELSE 0)
\* relay2_on applied twice with relay 1 on, both published
C7_Witness ==
  \E i \in 1..Len(cmdLog) :
    /\ Repeats(i)
    /\ cmdLog[i].payload = "relay2_on"
    /\ cmdLog[i].relay1 /\ cmdLog[i].relay2
    /\ cmdLog[i - 1].published = 1
    /\ cmdLog[i].published = 1
    /\ Len(statusLog) = 3

\* C8, for the windows that open right after a tick: such a window holds no
\* tick until the next one fires, so floor(D / interval) must stay 0, which
\* is to say that once a tick has fired the time since it never exceeds the
\* interval.
C8_TickCadence ==
  /\ lastSensorRead # 0 =>
       Elapsed(now, lastSensorRead) <= SENSOR_READ_INTERVAL
  /\ lastMqttPublish # 0 =>
       Elapsed(now, lastMqttPublish) <= MQTT_PUBLISH_INTERVAL

\* C9: with the client disconnected from t = 0 and the broker reachable
\* again from t = 12000, no sensor publish is made before t = 20000: none at
\* the 10000 tick, none between 12000 and 20000.
C9_OutageNextPublishAt20000 ==
  (outage.from = 0 /\ outage.until = 12 * 1000) =>
    \A i \in 1..Len(sensorLog) :
      sensorLog[i].timestamp >= 2 * MQTT_PUBLISH_INTERVAL

\* C10: a sensor publish is made by the publish tick only, one per tick, and
\* carries the conversion of what the pins read at that tick and the cached
\* relay flags of that moment.
C10_FreshSensorPublish ==
  [][sensorLog' # sensorLog =>
       /\ pc = "publish"
       /\ sensorLog' = Append(sensorLog, Last(sensorLog'))
       /\ Last(sensorLog').reading = Convert(adc)
       /\ Last(sensorLog').relay1State = relay1State
       /\ Last(sensorLog').relay2State = relay2State
       /\ Last(sensorLog').timestamp = now]_vars
\* a publish with relay 1 on whose values differ from the last sample's
C10_Witness ==
  /\ sensorLog # << >>
  /\ Last(sensorLog).relay1State
  /\ lastReading # NoReading
  /\ Last(sensorLog).reading # lastReading
  /\ Last(sensorLog).timestamp = now

\* In SpecWrap the device boots at uptime 0 and every millisecond that
\* passes is counted off stepsLeft, so the uptime that a counter of
\* unbounded width would show is known:
TrueNow == (WrapSteps - stepsLeft) * Step
\* and the time at which a stamp was taken is the latest time up to TrueNow
\* that shows as that stamp
TrueStamp(s) == IF s + Wrap <= TrueNow THEN s + Wrap ELSE s

\* C11: the sample and publish due-checks are true exactly when the time
\* truly elapsed since the recorded tick has reached the interval, also
\* when the counter wrapped between the recorded tick and now; the counter
\* shows the true uptime modulo 2^w.
C11_WrapSafeDueChecks ==
  /\ now = TrueNow % Wrap
  /\ TrueNow - TrueStamp(lastSensorRead) < Wrap
  /\ TrueNow - TrueStamp(lastMqttPublish) < Wrap
  /\ SampleDue <=>
       (TrueNow - TrueStamp(lastSensorRead) >= SENSOR_READ_INTERVAL)
  /\ PublishDue <=>
       (TrueNow - TrueStamp(lastMqttPublish) >= MQTT_PUBLISH_INTERVAL)
\* the counter has wrapped since the recorded sample tick, which is due
C11_Witness ==
  /\ TrueNow >= Wrap
  /\ now < lastSensorRead
  /\ now < lastMqttPublish
  /\ SampleDue
  /\ PublishDue
  /\ pc = "sample"

\* C12: a POST that was sent is reported as sent successfully exactly when
\* the returned status code is in 200..299; every other code and every
\* transport error is reported as an error.
C12_SuccessOnly2xx ==
  http.sent => (http.success <=> (200 <= http.code /\ http.code <= 299))

\* C13: a sample tick that finds Wi-Fi not associated sends no request and
\* spends no time in the POST; the cached relay flags, the relay pins, the
\* client's connection and the publish stamp stay as they were, and the
\* sample stamp the loop writes afterwards is the time of the tick.
C13_NoPostWithoutWifi ==
  [][(pc = "sample" /\ pc' = "publish" /\ SampleDue /\ ~wifi) =>
       /\ ~http'.sent
       /\ http'.code = 0
       /\ ~http'.success
       /\ now' = now
       /\ lastSensorRead' = now
       /\ UNCHANGED <<relay1State, relay2State, pins, mqttConnected,
                      subscribed, lastMqttPublish, inbox>>]_vars
\* a sample tick has just run with Wi-Fi down: sensors read, nothing posted
C13_Witness ==
  /\ pc = "publish"
  /\ ~wifi
  /\ now > 0
  /\ lastSensorRead = now
  /\ lastReading # NoReading
  /\ ~http.sent

\* the raw inputs of the happy telemetry scenario
HappyRaw ==
  [solarVoltageRaw |-> 2048, solarCurrentRaw |-> 1024,
   batteryVoltageRaw |-> 1800, chargeStatus |-> 1]
HappyPublish ==
  /\ sensorLog' # sensorLog
  /\ adc = HappyRaw
  /\ ~relay1State /\ ~relay2State

\* C14 as stated: with the happy raw inputs and both relays off the sensor
\* payload carries, in thousandths, solarVoltage 18133, solarCurrent 4468,
\* batteryVoltage 15933, and chargeStatus 1, relay1State and relay2State
\* false.
C14_HappyValuesAsStated ==
  [][HappyPublish =>
       /\ Last(sensorLog').reading =
            [solarVoltage |-> 18133, solarCurrent |-> 4468,
             batteryVoltage |-> 15933, chargeStatus |-> 1]
       /\ ~Last(sensorLog').relay1State
       /\ ~Last(sensorLog').relay2State]_vars

\* C14 as amended: with the happy raw inputs and both relays off the sensor
\* payload carries what raw * 3.3 / 4095 * 11.0 and raw * 3.3 / 4095 / 0.185
\* give, rounded to thousandths: solarVoltage 18154, solarCurrent 4461,
\* batteryVoltage 15956, and chargeStatus 1, relay1State and relay2State
\* false.
C14_HappyValues ==
  [][HappyPublish =>
       /\ Last(sensorLog').reading =
            [solarVoltage |-> 18154, solarCurrent |-> 4461,
             batteryVoltage |-> 15956, chargeStatus |-> 1]
       /\ ~Last(sensorLog').relay1State
       /\ ~Last(sensorLog').relay2State]_vars
\* the happy payload has been published
C14_Witness ==
  /\ sensorLog # << >>
  /\ Last(sensorLog).timestamp = now
  /\ adc = HappyRaw
  /\ Last(sensorLog).reading.solarVoltage = 18154
  /\ Last(sensorLog).reading.solarCurrent = 4461
  /\ Last(sensorLog).reading.batteryVoltage = 15956
  /\ Last(sensorLog).reading.chargeStatus = 1
  /\ ~Last(sensorLog).relay1State
  /\ ~Last(sensorLog).relay2State

\* C15: the step that ends setup() leaves both cached flags false and both
\* relay pins LOW; after it a cached flag or a relay pin changes only in
\* the step that hands a recognized control-topic command to the handler:
\* ticks, posts, service without such a message, link loss and reconnect
\* leave all four alone.
C15_RelaysChangeByCommandOnly ==
  [][/\ (pc = "boot" /\ pc' # "boot") =>
          /\ ~relay1State' /\ ~relay2State'
          /\ \A p \in RelayPins : pins'[p] = "LOW"
     /\ (pc # "boot" /\ dev' # dev) =>
          /\ pc = "service"
          /\ mqttConnected
          /\ inbox # << >>
          /\ Head(inbox).topic = MQTT_TOPIC_CONTROL
          /\ Head(inbox).payload \in Recognized
          /\ cmdLog' = Append(cmdLog, Last(cmdLog'))
          /\ Last(cmdLog').payload = Head(inbox).payload]_vars
\* relay 1 was switched on by a command, and the sample tick with its POST
\* and the publish tick that ran afterwards left it on
C15_Witness ==
  /\ pc = "loop"
  /\ Len(cmdLog) = 1
  /\ cmdLog[1].payload = "relay1_on"
  /\ relay1State /\ ~relay2State
  /\ pins[RELAY_1_PIN] = "HIGH" /\ pins[RELAY_2_PIN] = "LOW"
  /\ http.sent
  /\ sensorLog # << >>
  /\ Last(sensorLog).relay1State

\* C16: whenever the loop driver has left reconnectMQTT and services a
\* connected session, the subscription to the control topic is in place.
C16_ServicedOnlyWhenSubscribed ==
  (pc = "service" /\ mqttConnected) => subscribed

\* C17: a publish tick that is due stamps lastMqttPublish with the time of
\* the tick whether the publish call succeeded, failed or was skipped for
\* want of a connection, so the tick is not due again before another
\* interval has passed; it makes one publish call at most, none when not
\* connected; a sensor publish is made by a due publish tick only, with the
\* values the pins read at that tick, and what was published or missed
\* before is never sent again.
C17_NoRetryNoBuffer ==
  [][/\ (pc = "publish" /\ pc' # pc /\ PublishDue) =>
          /\ lastMqttPublish' = now
          /\ ~PublishDue'
          /\ Len(sensorLog') <= Len(sensorLog) + 1
          /\ ~mqttConnected => sensorLog' = sensorLog
     /\ (sensorLog' # sensorLog) =>
          /\ pc = "publish" /\ PublishDue /\ mqttConnected
          /\ sensorLog' = Append(sensorLog, Last(sensorLog'))
          /\ Last(sensorLog').reading = Convert(adc)
          /\ Last(sensorLog').timestamp = now
          /\ \A i \in 1..Len(sensorLog) :
               Elapsed(now, sensorLog[i].timestamp) >= MQTT_PUBLISH_INTERVAL
     /\ (lastMqttPublish' # lastMqttPublish) =>
          (pc = "publish" /\ PublishDue)]_vars
\* the first publish failed, and the publish tick one interval later found
\* the client disconnected: nothing was sent again
C17_Witness ==
  /\ pc = "loop"
  /\ Len(sensorLog) = 1
  /\ ~sensorLog[1].ok
  /\ ~mqttConnected
  /\ lastMqttPublish = now
  /\ now = sensorLog[1].timestamp + MQTT_PUBLISH_INTERVAL

\* C18: setup() always completes; the step that ends it has polled Wi-Fi
\* for as long as the link needed and never more than 20 times 500 ms, has
\* registered the callback, and goes on to loop() whether or not Wi-Fi
\* associated (it is associated exactly when it came up within the 20
\* polls).
C18_BootCompletes ==
  /\ [][(pc = "boot" /\ pc' # "boot") =>
          /\ pc' = "loop"
          /\ callback' = "mqttCallback"
          /\ now' - now <= WIFI_MAX_ATTEMPTS * WIFI_POLL_DELAY
          /\ assocAfter <= WIFI_MAX_ATTEMPTS =>
               (wifi' /\ now' - now = assocAfter * WIFI_POLL_DELAY)
          /\ assocAfter > WIFI_MAX_ATTEMPTS =>
               (~wifi' /\ now' - now = WIFI_MAX_ATTEMPTS * WIFI_POLL_DELAY)
       ]_vars
  /\ <>(pc # "boot" /\ callback = "mqttCallback")
\* setup() has just completed after 20 polls without Wi-Fi
C18_Witness ==
  /\ pc = "loop"
  /\ callback = "mqttCallback"
  /\ ~wifi
  /\ ~mqttConnected
  /\ attempts = 0
  /\ now = WIFI_MAX_ATTEMPTS * WIFI_POLL_DELAY
  /\ lastSensorRead = 0

Relay1Commands == {"relay1_on", "relay1_off"}
Relay2Commands == {"relay2_on", "relay2_off"}
Count(q, e) == Len(SelectSeq(q, LAMBDA x : x = e))

\* C19: a relay 1 command leaves the cached flag and the pin of relay 2 as
\* they were, a relay 2 command those of relay 1; a callback makes one pin
\* write and one flag assignment at most.
C19_RelayIndependence ==
  /\ \A i \in 1..Len(cmdLog) :
       /\ cmdLog[i].payload \in Relay1Commands =>
            /\ cmdLog[i].relay2 = Before(i).relay2
            /\ cmdLog[i].pins[RELAY_2_PIN] = Before(i).pins[RELAY_2_PIN]
       /\ cmdLog[i].payload \in Relay2Commands =>
            /\ cmdLog[i].relay1 = Before(i).relay1
            /\ cmdLog[i].pins[RELAY_1_PIN] = Before(i).pins[RELAY_1_PIN]
  /\ Count(lastTrace, "digitalWrite") <= 1
  /\ Count(lastTrace, "assign") <= 1
\* relay1_off handled with both relays on: relay 1 goes off, relay 2 stays
C19_Witness ==
  \E i \in 1..Len(cmdLog) :
    /\ cmdLog[i].payload = "relay1_off"
    /\ Before(i).relay1 /\ Before(i).relay2
    /\ ~cmdLog[i].relay1 /\ cmdLog[i].relay2
    /\ cmdLog[i].pins[RELAY_1_PIN] = "LOW"
    /\ cmdLog[i].pins[RELAY_2_PIN] = "HIGH"

\* what a recognized command asks of the relay it names
Commanded(e) ==
  IF e.payload = "relay1_on" THEN e.relay1 /\ e.pins[RELAY_1_PIN] = "HIGH"
  ELSE IF e.payload = "relay1_off"
    THEN ~e.relay1 /\ e.pins[RELAY_1_PIN] = "LOW"
  ELSE IF e.payload = "relay2_on"
    THEN e.relay2 /\ e.pins[RELAY_2_PIN] = "HIGH"
  ELSE ~e.relay2 /\ e.pins[RELAY_2_PIN] = "LOW"

\* C20: a recognized command leaves its relay at the commanded value
\* whether its status publish was made, failed or was skipped for want of
\* a connection; the relays stay as the last command left them; a command
\* makes its status publish when it is handled or never: the status
\* publishes made are those of the commands that published when handled.
C20_RelayChangeWithoutPublish ==
  /\ \A i \in 1..Len(cmdLog) :
       /\ cmdLog[i].payload \in Recognized => Commanded(cmdLog[i])
       /\ cmdLog[i].published \in {0, 1}
       /\ ~cmdLog[i].conn => cmdLog[i].published = 0
  /\ cmdLog # << >> =>
       /\ relay1State = Last(cmdLog).relay1
       /\ relay2State = Last(cmdLog).relay2
       /\ pins = Last(cmdLog).pins
  /\ Len(statusLog) = Len(SelectSeq(cmdLog, LAMBDA e : e.published = 1))
\* relay1_on was handled as the session closed (no publish), relay2_on
\* after the reconnect with a publish call that failed: both relays are on
\* and nothing was published for relay1_on afterwards
C20_Witness ==
  /\ pc = "loop"
  /\ Len(cmdLog) = 2
  /\ cmdLog[1].payload = "relay1_on" /\ ~cmdLog[1].conn
  /\ cmdLog[2].payload = "relay2_on" /\ cmdLog[2].conn
  /\ Len(statusLog) = 1
  /\ ~statusLog[1].ok
  /\ statusLog[1].relay1 /\ statusLog[1].relay2
  /\ relay1State /\ relay2State
  /\ pins[RELAY_1_PIN] = "HIGH" /\ pins[RELAY_2_PIN] = "HIGH"
====
